---- MODULE Spec2Model ----
(***************************************************************************)
(* brainrust: a brainfuck interpreter (src/main.rs).                       *)
(*                                                                         *)
(* The module models the pipeline of the driver run()                      *)
(*   preprocess -> tokenize -> optimize -> find_loops -> Program::run      *)
(* and, as separate specifications, the pure transforms applied to         *)
(* arbitrary instruction vectors and the unit test test_program_run.       *)
(*                                                                         *)
(* Vec indices are 0-based as in the source; At(s, i) reads element i.     *)
(***************************************************************************)
EXTENDS Integers, Sequences, FiniteSets, TLC

VARIABLES
    source,     \* the text of the program file (a sequence of characters)
    text,       \* run(): the preprocessed text (the local `input`)
    input,      \* the input stream: what each successive read delivers
    inpos,      \* number of items of the input stream already consumed
    output,     \* bytes written to the output sink so far
    commands,   \* Vec<Command>: the instruction vector being transformed / run
    stage,      \* where the driver (or the harness) stands
    result,     \* "none" while running, else "Ok", an Err message or "panic"
    pc,         \* Program::run: program counter (usize)
    pos,        \* Program::run: tape pointer (isize)
    memory,     \* Program::run: HashMap<isize, u8>; DOMAIN = materialized keys
    prev,       \* the vector as it was before the last transform was applied
    applied,    \* the transforms applied so far, oldest first
    original    \* the vector as it was before the first transform was applied

vars == <<source, text, input, inpos, output, commands, stage, result,
          pc, pos, memory, prev, applied, original>>

-----------------------------------------------------------------------------
(* Bounds of the model *)

\* longest instruction vector handed to the transforms
MaxProg == 4
\* longest program text handed to the driver
MaxSrc == 3
\* longest input stream handed to the driver
MaxIn == 1
\* largest isize (the address type, scaled down from 2^63 - 1)
ISIZE_MAX == 31
\* steps granted to the reference run of the unoptimized program
Fuel == 40
\* bytes the output sink takes before the model stops following the run
MaxOut == 3
\* longest program file of the loop programs
MaxLoopSrc == 6

ISIZE_MIN == -ISIZE_MAX - 1
USIZE_MAX == 2 * ISIZE_MAX + 1
\* u8 arithmetic wraps modulo 2^8
U8Mod == 256

-----------------------------------------------------------------------------
(* Command: the enum of the eight instructions.  A command is a record      *)
(* [op, arg]; arg is the amount, the end or the start, and 0 for the two   *)
(* variants without a payload.                                             *)

INCPTR(amount) == [op |-> "INCPTR", arg |-> amount]
DECPTR(amount) == [op |-> "DECPTR", arg |-> amount]
INCVAL(amount) == [op |-> "INCVAL", arg |-> amount]
DECVAL(amount) == [op |-> "DECVAL", arg |-> amount]
PUTC == [op |-> "PUTC", arg |-> 0]
GETC == [op |-> "GETC", arg |-> 0]
LOOPSTART(end) == [op |-> "LOOPSTART", arg |-> end]
LOOPEND(start) == [op |-> "LOOPEND", arg |-> start]

\* isize::wrapping_add(1)
isize_wrapping_inc(a) == IF a = ISIZE_MAX THEN ISIZE_MIN ELSE a + 1
\* u8::wrapping_add / u8::wrapping_sub
u8_wrapping_add(a, b) == (a + b) % U8Mod
u8_wrapping_sub(a, b) == (a - b + U8Mod) % U8Mod

\* Vec indexing, 0-based
At(s, i) == s[i + 1]
\* Vec::remove(i): drops element i and shifts the tail left
VecRemove(s, i) == SubSeq(s, 1, i) \o SubSeq(s, i + 2, Len(s))
\* s with element i replaced
VecSet(s, i, c) == [s EXCEPT ![i + 1] = c]

SetMin(S) == CHOOSE x \in S : \A y \in S : x <= y

\* All sequences over S of length at most n
RECURSIVE SeqsUpTo(_, _)
SeqsUpTo(S, n) ==
    IF n = 0 THEN { <<>> }
    ELSE LET shorter == SeqsUpTo(S, n - 1)
         IN  shorter \cup { Append(s, x) : s \in { t \in shorter : Len(t) = n - 1 }, x \in S }

-----------------------------------------------------------------------------
(* optimize_cancelling_pairs *)

\* The closure remove_pair.  `program.len() - 1` is usize arithmetic: on an
\* empty vector it panics in a debug build and wraps to usize::MAX in a
\* release build, where the first `program[0]` then panics (index out of
\* bounds).  Either build panics.
remove_pair(program, first, second) ==
    IF Len(program) = 0
    THEN [panic |-> TRUE, found |-> FALSE, program |-> program]
    ELSE LET hits == { i \in 0 .. Len(program) - 2 :
                         \/ At(program, i) = first /\ At(program, i + 1) = second
                         \/ At(program, i) = second /\ At(program, i + 1) = first }
         IN  IF hits = {}
             THEN [panic |-> FALSE, found |-> FALSE, program |-> program]
             ELSE LET i == SetMin(hits)
                  IN  [panic |-> FALSE, found |-> TRUE,
                       program |-> VecRemove(VecRemove(program, i + 1), i)]

\* while remove_pair(first, second) {}
RECURSIVE remove_pairs_while(_, _, _)
remove_pairs_while(program, first, second) ==
    LET r == remove_pair(program, first, second)
    IN  IF r.panic THEN [panic |-> TRUE, program |-> r.program]
        ELSE IF r.found THEN remove_pairs_while(r.program, first, second)
        ELSE [panic |-> FALSE, program |-> r.program]

optimize_cancelling_pairs(program) ==
    LET p == remove_pairs_while(program, INCPTR(1), DECPTR(1))
    IN  IF p.panic THEN p
        ELSE remove_pairs_while(p.program, INCVAL(1), DECVAL(1))

-----------------------------------------------------------------------------
(* optimize_sequences *)

\* sequences_iter without `seq_len = 1` when the neighbours differ
sequences_iter_noreset(st, i) ==
    IF At(st.program, i - 1) /= At(st.program, i)
    THEN st
    ELSE LET first == At(st.program, i - st.seq_len)
         IN  IF first.op \in {"INCPTR", "DECPTR"}
             THEN [program   |-> VecSet(st.program, i - st.seq_len,
                                        [first EXCEPT !.arg = isize_wrapping_inc(first.arg)]),
                   to_remove |-> Append(st.to_remove, i),
                   seq_len   |-> st.seq_len + 1]
             ELSE IF first.op \in {"INCVAL", "DECVAL"}
             THEN [program   |-> VecSet(st.program, i - st.seq_len,
                                        [first EXCEPT !.arg = u8_wrapping_add(first.arg, 1)]),
                   to_remove |-> Append(st.to_remove, i),
                   seq_len   |-> st.seq_len + 1]
             ELSE st

\* One iteration of `for i in 1 .. program.len()`; st = [program, to_remove, seq_len]
sequences_iter(st, i) ==
    IF At(st.program, i - 1) /= At(st.program, i)
    THEN [st EXCEPT !.seq_len = 1]
    ELSE LET first == At(st.program, i - st.seq_len)
         IN  IF first.op \in {"INCPTR", "DECPTR"}
             THEN [program   |-> VecSet(st.program, i - st.seq_len,
                                        [first EXCEPT !.arg = isize_wrapping_inc(first.arg)]),
                   to_remove |-> Append(st.to_remove, i),
                   seq_len   |-> st.seq_len + 1]
             ELSE IF first.op \in {"INCVAL", "DECVAL"}
             THEN [program   |-> VecSet(st.program, i - st.seq_len,
                                        [first EXCEPT !.arg = u8_wrapping_add(first.arg, 1)]),
                   to_remove |-> Append(st.to_remove, i),
                   seq_len   |-> st.seq_len + 1]
             ELSE st

RECURSIVE sequences_scan(_, _)
sequences_scan(st, i) ==
    IF i >= Len(st.program) THEN st
    ELSE sequences_scan(sequences_iter(st, i), i + 1)

\* for i in to_remove.iter().rev() { program.remove(*i) }
RECURSIVE remove_reversed(_, _)
remove_reversed(program, to_remove) ==
    IF to_remove = <<>> THEN program
    ELSE remove_reversed(VecRemove(program, to_remove[Len(to_remove)]),
                         SubSeq(to_remove, 1, Len(to_remove) - 1))

optimize_sequences(program) ==
    LET st == sequences_scan([program |-> program, to_remove |-> <<>>, seq_len |-> 1], 1)
    IN  remove_reversed(st.program, st.to_remove)

\* optimize with the two passes in the other order
optimize_sequences_first(program) ==
    optimize_cancelling_pairs(optimize_sequences(program))

optimize(program) ==
    LET c == optimize_cancelling_pairs(program)
    IN  IF c.panic THEN c
        ELSE [panic |-> FALSE, program |-> optimize_sequences(c.program)]

-----------------------------------------------------------------------------
(* find_loops *)

ErrNoOpening == "Cannot find opening bracket for closing bracket"
ErrMoreOpening == "More opening than closing loop brackets"

\* find_loops_iter taking the oldest pending LOOPSTART instead of the newest
find_loops_iter_fifo(st, i) ==
    LET c == At(st.commands, i)
    IN  IF c.op = "LOOPSTART"
        THEN [st EXCEPT !.loop_starts = Append(st.loop_starts, i)]
        ELSE IF c.op = "LOOPEND"
        THEN IF st.loop_starts = <<>>
             THEN [st EXCEPT !.err = ErrNoOpening]
             ELSE LET start == st.loop_starts[1]
                  IN  [err         |-> "",
                       commands    |-> VecSet(VecSet(st.commands, start, LOOPSTART(i)),
                                              i, LOOPEND(start)),
                       loop_starts |-> Tail(st.loop_starts)]
        ELSE st

\* One iteration of `for i in 0 .. commands.len()`;
\* st = [err, commands, loop_starts], err = "" until the `?` returns early.
find_loops_iter(st, i) ==
    LET c == At(st.commands, i)
    IN  IF c.op = "LOOPSTART"
        THEN [st EXCEPT !.loop_starts = Append(st.loop_starts, i)]
        ELSE IF c.op = "LOOPEND"
        THEN IF st.loop_starts = <<>>
             THEN [st EXCEPT !.err = ErrNoOpening]
             ELSE LET n     == Len(st.loop_starts)
                      start == st.loop_starts[n]
                  IN  [err         |-> "",
                       commands    |-> VecSet(VecSet(st.commands, start, LOOPSTART(i)),
                                              i, LOOPEND(start)),
                       loop_starts |-> SubSeq(st.loop_starts, 1, n - 1)]
        ELSE st

\* The for loop from index i on.  The state after an iteration is bound by a
\* set constructor, so that it is computed once per iteration.
RECURSIVE find_loops_scan(_, _)
find_loops_scan(st, i) ==
    IF i >= Len(st.commands) \/ st.err /= "" THEN st
    ELSE CHOOSE r \in { find_loops_scan(nxt, i + 1) : nxt \in { find_loops_iter(st, i) } } : TRUE

\* find_loops without the check for LOOPSTARTs left pending after the pass
find_loops_nopending(cmds) ==
    LET st == find_loops_scan([err |-> "", commands |-> cmds, loop_starts |-> <<>>], 0)
    IN  IF st.err /= "" THEN [res |-> st.err, commands |-> st.commands]
        ELSE [res |-> "Ok", commands |-> st.commands]

\* Returns [res, commands]: the Result and the vector as the call leaves it.
find_loops(cmds) ==
    LET st == find_loops_scan([err |-> "", commands |-> cmds, loop_starts |-> <<>>], 0)
    IN  IF st.err /= "" THEN [res |-> st.err, commands |-> st.commands]
        ELSE IF st.loop_starts /= <<>> THEN [res |-> ErrMoreOpening, commands |-> st.commands]
        ELSE [res |-> "Ok", commands |-> st.commands]

-----------------------------------------------------------------------------
(* preprocess and tokenize *)

AllowedChars == { ">", "<", "+", "-", ".", ",", "[", "]" }

IsAllowed_nocomma(c) == c \in AllowedChars \ { "," }

IsAllowed(c) == c \in AllowedChars

preprocess(program) == SelectSeq(program, IsAllowed)

\* The match of tokenize; "invalid" stands for the panicking arm
token(c) ==
    CASE c = ">" -> INCPTR(1)
      [] c = "<" -> DECPTR(1)
      [] c = "+" -> INCVAL(1)
      [] c = "-" -> DECVAL(1)
      [] c = "." -> PUTC
      [] c = "," -> GETC
      [] c = "[" -> LOOPSTART(0)
      [] c = "]" -> LOOPEND(0)
      [] OTHER   -> [op |-> "invalid", arg |-> 0]

tokenize(chars) ==
    LET mapped == [k \in 1 .. Len(chars) |-> token(chars[k])]
    IN  IF \E k \in 1 .. Len(chars) : mapped[k].op = "invalid"
        THEN [panic |-> TRUE, commands |-> <<>>]
        ELSE [panic |-> FALSE, commands |-> mapped]

-----------------------------------------------------------------------------
(* Program::run.  The engine state is the record                            *)
(*   e = [pc, pos, memory, inpos, output, result];                         *)
(* `stream` is the input, `w` what the sink answers to a write.            *)

ErrPtrOverflow == "Pointer overflow"
ErrPtrUnderflow == "Pointer underflow"
ErrWrite == "Writing to output failed"
ErrRead == "Reading from input failed"
ErrPc == "PC overflow"

\* An item of the input stream that is no byte (bytes are 0 .. 255): the read
\* fails there with an error other than UnexpectedEof
ReadErr == 256

EmptyMemory == [a \in {} |-> 0]

\* *memory.get(&pos).unwrap_or(&0)
MemGet(mem, p) == IF p \in DOMAIN mem THEN mem[p] ELSE 0
\* memory.insert(pos, v), and the write through memory.entry(pos).or_insert(0)
MemPut(mem, p, v) == [a \in DOMAIN mem \cup {p} |-> IF a = p THEN v ELSE mem[a]]

EngineStart(consumed, written) ==
    [pc |-> 0, pos |-> 0, memory |-> EmptyMemory,
     inpos |-> consumed, output |-> written, result |-> "none"]

\* pc = pc.checked_add(1).ok_or("PC overflow")?
advance(e) ==
    IF e.pc >= USIZE_MAX THEN [e EXCEPT !.result = ErrPc]
    ELSE [e EXCEPT !.pc = e.pc + 1]

\* pos.checked_add(amount) / pos.checked_sub(amount)
\* INCPTR with pos.wrapping_add(amount) in place of checked_add
dispatch_incptr_wrapping(e, amount) ==
    advance([e EXCEPT !.pos = ((e.pos + amount - ISIZE_MIN) % (USIZE_MAX + 1)) + ISIZE_MIN])

dispatch_incptr(e, amount) ==
    IF e.pos + amount > ISIZE_MAX \/ e.pos + amount < ISIZE_MIN
    THEN [e EXCEPT !.result = ErrPtrOverflow]
    ELSE advance([e EXCEPT !.pos = e.pos + amount])

dispatch_decptr(e, amount) ==
    IF e.pos - amount > ISIZE_MAX \/ e.pos - amount < ISIZE_MIN
    THEN [e EXCEPT !.result = ErrPtrUnderflow]
    ELSE advance([e EXCEPT !.pos = e.pos - amount])

dispatch_incval(e, amount) ==
    advance([e EXCEPT !.memory = MemPut(e.memory, e.pos,
                                        u8_wrapping_add(MemGet(e.memory, e.pos), amount))])

\* DECVAL that stops at 0 instead of wrapping
dispatch_decval_saturating(e, amount) ==
    LET old == MemGet(e.memory, e.pos)
    IN  advance([e EXCEPT !.memory = MemPut(e.memory, e.pos,
                                            IF old < amount THEN 0 ELSE old - amount)])

dispatch_decval(e, amount) ==
    advance([e EXCEPT !.memory = MemPut(e.memory, e.pos,
                                        u8_wrapping_sub(MemGet(e.memory, e.pos), amount))])

dispatch_putc(e, w) ==
    IF w = "err" THEN [e EXCEPT !.result = ErrWrite]
    ELSE advance([e EXCEPT !.output = Append(e.output, MemGet(e.memory, e.pos))])

\* GETC that stores 0 at the end of the stream
dispatch_getc_eof_zero(e, stream) ==
    IF e.inpos >= Len(stream)
    THEN advance([e EXCEPT !.memory = MemPut(e.memory, e.pos, 0)])
    ELSE IF stream[e.inpos + 1] = ReadErr
    THEN [e EXCEPT !.result = ErrRead]
    ELSE advance([e EXCEPT !.memory = MemPut(e.memory, e.pos, stream[e.inpos + 1]),
                           !.inpos = e.inpos + 1])

\* GETC that moves to the next cell after it stored a byte
dispatch_getc_advancing(e, stream) ==
    IF e.inpos >= Len(stream)
    THEN advance(e)
    ELSE IF stream[e.inpos + 1] = ReadErr
    THEN [e EXCEPT !.result = ErrRead]
    ELSE advance([e EXCEPT !.memory = MemPut(e.memory, e.pos, stream[e.inpos + 1]),
                           !.inpos = e.inpos + 1,
                           !.pos = isize_wrapping_inc(e.pos)])

dispatch_getc(e, stream) ==
    IF e.inpos >= Len(stream)
    THEN advance(e)
    ELSE IF stream[e.inpos + 1] = ReadErr
    THEN [e EXCEPT !.result = ErrRead]
    ELSE advance([e EXCEPT !.memory = MemPut(e.memory, e.pos, stream[e.inpos + 1]),
                           !.inpos = e.inpos + 1])

\* LOOPSTART with the test of the cell inverted
dispatch_loopstart_inverted(e, end) ==
    IF MemGet(e.memory, e.pos) /= 0
    THEN advance([e EXCEPT !.pc = end])
    ELSE advance(e)

\* LOOPSTART that jumps to the instruction after the LOOPEND before the
\* increment common to all instructions
dispatch_loopstart_pastend(e, end) ==
    IF MemGet(e.memory, e.pos) = 0
    THEN advance([e EXCEPT !.pc = end + 1])
    ELSE advance(e)

dispatch_loopstart(e, end) ==
    IF MemGet(e.memory, e.pos) = 0
    THEN advance([e EXCEPT !.pc = end])
    ELSE advance(e)

\* LOOPEND that goes on to the instruction after it
dispatch_loopend_fallthrough(e, start) == advance(e)

\* pc = start; continue
dispatch_loopend(e, start) == [e EXCEPT !.pc = start]

\* One iteration of the `loop` of Program::run
engine_step(cmds, stream, e, w) ==
    IF e.pc >= Len(cmds) THEN [e EXCEPT !.result = "Ok"]
    ELSE LET c == At(cmds, e.pc)
         IN  CASE c.op = "INCPTR"    -> dispatch_incptr(e, c.arg)
               [] c.op = "DECPTR"    -> dispatch_decptr(e, c.arg)
               [] c.op = "INCVAL"    -> dispatch_incval(e, c.arg)
               [] c.op = "DECVAL"    -> dispatch_decval(e, c.arg)
               [] c.op = "PUTC"      -> dispatch_putc(e, w)
               [] c.op = "GETC"      -> dispatch_getc(e, stream)
               [] c.op = "LOOPSTART" -> dispatch_loopstart(e, c.arg)
               [] c.op = "LOOPEND"   -> dispatch_loopend(e, c.arg)

\* Program::run on streams that never fail, cut off after `fuel` iterations
\* (result = "none" when it was cut off)
RECURSIVE engine_run(_, _, _, _)
engine_run(cmds, stream, e, fuel) ==
    IF e.result /= "none" \/ fuel = 0 THEN e
    ELSE engine_run(cmds, stream, engine_step(cmds, stream, e, "ok"), fuel - 1)

-----------------------------------------------------------------------------
(* The driver run(): the program file has been read into `source`.          *)

Chars == AllowedChars \cup { "x" }
InBytes == { 0, 65 }
WriteOutcomes == { "ok", "err" }

Init ==
    /\ source \in SeqsUpTo(Chars, MaxSrc)
    /\ input \in SeqsUpTo(InBytes \cup {ReadErr}, MaxIn)
    /\ text = <<>>
    /\ commands = <<>>
    /\ stage = "read_program"
    /\ result = "none"
    /\ inpos = 0 /\ output = <<>>
    /\ pc = 0 /\ pos = 0 /\ memory = EmptyMemory
    /\ prev = <<>> /\ applied = <<>> /\ original = <<>>

Preprocess ==
    /\ stage = "read_program" /\ result = "none"
    /\ text' = preprocess(source)
    /\ stage' = "preprocess"
    /\ UNCHANGED <<source, input, inpos, output, commands, result, pc, pos, memory,
                   prev, applied, original>>

Tokenize ==
    /\ stage = "preprocess" /\ result = "none"
    /\ LET r == tokenize(text)
       IN  /\ commands' = r.commands
           /\ result' = IF r.panic THEN "panic" ELSE "none"
    /\ stage' = "tokenize"
    /\ UNCHANGED <<source, text, input, inpos, output, pc, pos, memory, prev, applied, original>>

\* find_loops(&mut commands)? called first and optimize(&mut commands) after it
Optimize_after_find_loops ==
    /\ stage = "tokenize" /\ result = "none"
    /\ LET f == find_loops(commands)
           r == optimize(f.commands)
       IN  /\ commands' = IF f.res = "Ok" THEN r.program ELSE f.commands
           /\ result' = IF f.res /= "Ok" THEN f.res
                         ELSE IF r.panic THEN "panic" ELSE "none"
    /\ stage' = "find_loops"
    /\ UNCHANGED <<source, text, input, inpos, output, pc, pos, memory, prev, applied, original>>

Optimize ==
    /\ stage = "tokenize" /\ result = "none"
    /\ LET r == optimize(commands)
       IN  /\ commands' = r.program
           /\ result' = IF r.panic THEN "panic" ELSE "none"
    /\ stage' = "optimize"
    /\ UNCHANGED <<source, text, input, inpos, output, pc, pos, memory, prev, applied, original>>

\* find_loops(&mut commands) with the Result dropped instead of `?`
FindLoops_unchecked ==
    /\ stage = "optimize" /\ result = "none"
    /\ commands' = find_loops(commands).commands
    /\ stage' = "find_loops"
    /\ UNCHANGED <<source, text, input, inpos, output, result, pc, pos, memory,
                   prev, applied, original>>

\* find_loops(&mut commands)? called on the tokenizer's vector, before optimize
FindLoops_first ==
    /\ stage = "tokenize" /\ result = "none"
    /\ LET r == find_loops(commands)
       IN  /\ commands' = r.commands
           /\ result' = IF r.res = "Ok" THEN "none" ELSE r.res
    /\ stage' = "find_loops"
    /\ UNCHANGED <<source, text, input, inpos, output, pc, pos, memory, prev, applied, original>>

\* find_loops(&mut commands)?
FindLoops ==
    /\ stage = "optimize" /\ result = "none"
    /\ LET r == find_loops(commands)
       IN  /\ commands' = r.commands
           /\ result' = IF r.res = "Ok" THEN "none" ELSE r.res
    /\ stage' = "find_loops"
    /\ UNCHANGED <<source, text, input, inpos, output, pc, pos, memory, prev, applied, original>>

\* Program{commands}; program.run(..) entered: memory, pos and pc are set up
StartRun ==
    /\ stage = "find_loops" /\ result = "none"
    /\ stage' = "run"
    /\ pc' = 0 /\ pos' = 0 /\ memory' = EmptyMemory
    /\ UNCHANGED <<source, text, input, inpos, output, commands, result, prev, applied, original>>

EngineState ==
    [pc |-> pc, pos |-> pos, memory |-> memory,
     inpos |-> inpos, output |-> output, result |-> result]

\* The next iteration would write to a sink that already holds MaxOut bytes
OutputFull ==
    /\ pc < Len(commands)
    /\ At(commands, pc).op = "PUTC"
    /\ Len(output) >= MaxOut

\* One iteration of the loop of Program::run, the sink answering w
Step(w) ==
    /\ stage = "run" /\ result = "none"
    /\ ~OutputFull
    /\ LET e == engine_step(commands, input, EngineState, w)
       IN  /\ pc' = e.pc /\ pos' = e.pos /\ memory' = e.memory
           /\ inpos' = e.inpos /\ output' = e.output /\ result' = e.result
    /\ UNCHANGED <<source, text, input, commands, stage, prev, applied, original>>

StepStd == \E w \in WriteOutcomes : Step(w)

Next == Preprocess \/ Tokenize \/ Optimize \/ FindLoops \/ StartRun \/ StepStd

Spec == Init /\ [][Next]_vars

-----------------------------------------------------------------------------
(* test_program_run: tokenize(code), find_loops(..).unwrap(), Program::run  *)
(* on in-memory cursors, which never fail.                                 *)

TestCode == << "+", "+", "[", ">", "[", ">", "]", ",", "+", "[", "<", "]", ">", "-", "]",
               ">", "[", ".", ">", "]" >>

\* bytes tried as the first two of the input, and what may follow them
TestBytes == { 0, 49, 51, 254 }
TestTails == { <<>>, <<97, 98, 99>> }

InitTest ==
    /\ source = TestCode
    /\ text = TestCode
    /\ commands = tokenize(TestCode).commands
    /\ stage = "tokenize"
    /\ result = "none"
    /\ input \in { <<b1, b2>> \o tail : b1 \in TestBytes, b2 \in TestBytes, tail \in TestTails }
    /\ inpos = 0 /\ output = <<>>
    /\ pc = 0 /\ pos = 0 /\ memory = EmptyMemory
    /\ prev = <<>> /\ applied = <<>> /\ original = <<>>

\* find_loops(&mut commands).unwrap()
TestFindLoops ==
    /\ stage = "tokenize" /\ result = "none"
    /\ LET r == find_loops(commands)
       IN  /\ commands' = r.commands
           /\ result' = IF r.res = "Ok" THEN "none" ELSE "panic"
    /\ stage' = "find_loops"
    /\ UNCHANGED <<source, text, input, inpos, output, pc, pos, memory, prev, applied, original>>

StepCursor == Step("ok")

NextTest == TestFindLoops \/ StartRun \/ StepCursor

\* The test runs to its end: no step that can be taken is put off forever
SpecTest == InitTest /\ [][NextTest]_vars /\ WF_vars(NextTest)

-----------------------------------------------------------------------------
(* The transforms applied to arbitrary vectors of unit-amount instructions  *)
(* (what tokenize produces), at most two in a row, as the unit tests do.   *)

UnitCommands == { INCPTR(1), DECPTR(1), INCVAL(1), DECVAL(1),
                  PUTC, GETC, LOOPSTART(0), LOOPEND(0) }

\* the vector of test_optimize
TestOptimizeCommands ==
    <<INCVAL(1), INCPTR(1), DECPTR(1), INCVAL(1), INCVAL(1), DECVAL(1), INCVAL(1)>>

InitTransforms ==
    /\ commands \in SeqsUpTo(UnitCommands, MaxProg) \cup { TestOptimizeCommands }
    /\ original = commands
    /\ prev = <<>>
    /\ applied = <<>>
    /\ result = "none"
    /\ stage = "transform"
    /\ source = <<>> /\ text = <<>>
    /\ input = <<>> /\ inpos = 0 /\ output = <<>>
    /\ pc = 0 /\ pos = 0 /\ memory = EmptyMemory

\* A transform was called on `commands`; it left `program` behind and ended `res`.
Transformed(name, program, res) ==
    /\ stage = "transform"
    /\ result /= "panic"
    /\ Len(applied) < 2
    /\ prev' = commands
    /\ commands' = program
    /\ applied' = Append(applied, name)
    /\ result' = res
    /\ UNCHANGED <<source, text, input, inpos, output, stage, pc, pos, memory, original>>

PanicOrOk(r) == IF r.panic THEN "panic" ELSE "Ok"

ApplyCancellingPairs ==
    LET r == optimize_cancelling_pairs(commands)
    IN  Transformed("optimize_cancelling_pairs", r.program, PanicOrOk(r))

ApplySequences ==
    Transformed("optimize_sequences", optimize_sequences(commands), "Ok")

ApplyOptimize ==
    LET r == optimize(commands)
    IN  Transformed("optimize", r.program, PanicOrOk(r))

ApplyFindLoops ==
    LET r == find_loops(commands)
    IN  Transformed("find_loops", r.commands, r.res)

NextTransforms ==
    ApplyCancellingPairs \/ ApplySequences \/ ApplyOptimize \/ ApplyFindLoops

SpecTransforms == InitTransforms /\ [][NextTransforms]_vars

-----------------------------------------------------------------------------
(* Properties of the transforms, checked under SpecTransforms *)

Last(s) == s[Len(s)]

Opposite(a, b) ==
    \/ {a, b} = {INCPTR(1), DECPTR(1)}
    \/ {a, b} = {INCVAL(1), DECVAL(1)}

NoCancellingPair(p) == \A i \in 1 .. Len(p) - 1 : ~Opposite(p[i], p[i + 1])

\* p is a concatenation of adjacent cancelling pairs
PairsOnly(p) ==
    /\ Len(p) % 2 = 0
    /\ \A k \in 1 .. Len(p) \div 2 : Opposite(p[2 * k - 1], p[2 * k])

RECURSIVE IsSubseq(_, _)
IsSubseq(a, b) ==
    IF a = <<>> THEN TRUE
    ELSE IF b = <<>> THEN FALSE
    ELSE IF Head(a) = Head(b) THEN IsSubseq(Tail(a), Tail(b))
    ELSE IsSubseq(a, Tail(b))

\* C1: optimize(optimize(p)) = optimize(p): a second application of optimize
\* returns normally and leaves the vector as the first application left it.
C1_OptimizeIdempotent ==
    applied = <<"optimize", "optimize">> => (result = "Ok" /\ commands = prev)

\* C2: optimize_cancelling_pairs and optimize never panic, on any vector
\* (the empty one included), and a vector made of cancelling pairs only is
\* reduced to the empty vector.
C2_OptimizerTotal ==
    (Len(applied) = 1 /\ applied[1] \in {"optimize_cancelling_pairs", "optimize"})
        => /\ result = "Ok"
           /\ PairsOnly(prev) => commands = <<>>

\* C3: when optimize_cancelling_pairs returns, no unit pointer pair and no
\* unit cell pair is adjacent (in either order), and what is left is a
\* subsequence of the input.
C3_NoPairLeft ==
    (applied = <<"optimize_cancelling_pairs">> /\ result = "Ok")
        => /\ NoCancellingPair(commands)
           /\ IsSubseq(commands, prev)

\* Length of the maximal run of identical instructions at the head of p
RunLength(p) ==
    SetMin({ n \in 1 .. Len(p) : n = Len(p) \/ p[n + 1] /= p[1] })

\* Run-length coding of a vector of unit-amount instructions: every maximal
\* run of an amount-bearing kind becomes one instruction with the run length
\* as amount; runs of the other kinds are copied.
RECURSIVE Coalesced(_)
Coalesced(p) ==
    IF p = <<>> THEN <<>>
    ELSE LET n    == RunLength(p)
             h    == p[1]
             rest == SubSeq(p, n + 1, Len(p))
         IN  IF h.op \in {"INCPTR", "DECPTR"}
             THEN <<[h EXCEPT !.arg = n]>> \o Coalesced(rest)
             ELSE IF h.op \in {"INCVAL", "DECVAL"}
             THEN <<[h EXCEPT !.arg = n % U8Mod]>> \o Coalesced(rest)
             ELSE SubSeq(p, 1, n) \o Coalesced(rest)

\* C10: on a vector of unit-amount instructions optimize_sequences yields its
\* run-length coding: each maximal run of n >= 2 identical amount-bearing
\* instructions becomes one instruction of amount n, runs of length 1 and
\* repeated PUTC, GETC, LOOPSTART, LOOPEND stay, and the order is kept.
C10_SequencesCoalesced ==
    applied = <<"optimize_sequences">>
        => (result = "Ok" /\ commands = Coalesced(prev))

C10_Witness ==
    /\ applied = <<"optimize_sequences">>
    /\ prev = <<DECPTR(1), DECPTR(1), PUTC, PUTC>>
    /\ commands = <<DECPTR(2), PUTC, PUTC>>

Opens(p, a, b) == Cardinality({ k \in a .. b : p[k].op = "LOOPSTART" })
Closes(p, a, b) == Cardinality({ k \in a .. b : p[k].op = "LOOPEND" })

Balanced(p) ==
    /\ \A k \in 1 .. Len(p) : Opens(p, 1, k) >= Closes(p, 1, k)
    /\ Opens(p, 1, Len(p)) = Closes(p, 1, Len(p))

\* Position (1-based) of the LOOPEND closing the LOOPSTART at position i
MatchingClose(p, i) ==
    SetMin({ j \in i + 1 .. Len(p) : Opens(p, i, j) = Closes(p, i, j) })

\* C5: on a balanced vector find_loops returns Ok, every LOOPSTART at index i
\* gets end = j, the index of its syntactically matching LOOPEND, that LOOPEND
\* gets start = i, and every other instruction is left as it was.
C5_LoopsResolved ==
    (applied = <<"find_loops">> /\ Balanced(prev)) =>
        /\ result = "Ok"
        /\ Len(commands) = Len(prev)
        /\ \A i \in 1 .. Len(prev) :
              IF prev[i].op = "LOOPSTART"
              THEN LET j == MatchingClose(prev, i)
                   IN  /\ commands[i] = LOOPSTART(j - 1)
                       /\ commands[j] = LOOPEND(i - 1)
              ELSE prev[i].op /= "LOOPEND" => commands[i] = prev[i]

C5_Witness ==
    /\ applied = <<"find_loops">>
    /\ prev = <<LOOPSTART(0), LOOPSTART(0), LOOPEND(0), LOOPEND(0)>>
    /\ commands = <<LOOPSTART(3), LOOPSTART(2), LOOPEND(1), LOOPEND(0)>>
    /\ result = "Ok"

\* Positions (1-based) of the LOOPENDs met with no LOOPSTART pending
StrayCloses(p) == { k \in 1 .. Len(p) : Closes(p, 1, k) > Opens(p, 1, k) }

\* C6: find_loops fails with the closing-bracket error iff some LOOPEND is met
\* with no LOOPSTART pending, and the first such LOOPEND ends the pass (it and
\* everything after it is left untouched); otherwise it fails with the
\* opening-bracket error iff a LOOPSTART is still pending at the end; otherwise
\* it succeeds.
C6_LoopErrors ==
    applied = <<"find_loops">> =>
        IF StrayCloses(prev) /= {}
        THEN /\ result = ErrNoOpening
             /\ \A k \in SetMin(StrayCloses(prev)) .. Len(prev) : commands[k] = prev[k]
        ELSE IF Opens(prev, 1, Len(prev)) > Closes(prev, 1, Len(prev))
        THEN result = ErrMoreOpening
        ELSE result = "Ok"

C6_Witness ==
    /\ applied = <<"find_loops">>
    /\ prev = <<LOOPEND(0), LOOPSTART(0), LOOPEND(0)>>
    /\ commands = prev
    /\ result = ErrNoOpening

-----------------------------------------------------------------------------
(* Properties of the driver, checked under Spec *)

CountChar(s, c, n) == Cardinality({ k \in 1 .. n : s[k] = c })

\* the brackets of the text s nest properly
SourceBalanced(s) ==
    /\ \A n \in 1 .. Len(s) : CountChar(s, "[", n) >= CountChar(s, "]", n)
    /\ CountChar(s, "[", Len(s)) = CountChar(s, "]", Len(s))

\* some "]" of the text s has no "[" before it left to close
SourceStrayClose(s) ==
    \E n \in 1 .. Len(s) : CountChar(s, "]", n) > CountChar(s, "[", n)

MoreOpening(s) == CountChar(s, "[", Len(s)) > CountChar(s, "]", Len(s))

\* The run of find_loops(tokenize(preprocess(src))), not optimized, on
\* streams that do not fail
Unoptimized(src, stream) ==
    LET r == find_loops(tokenize(preprocess(src)).commands)
    IN  engine_run(r.commands, stream, EngineStart(0, <<>>), Fuel)

\* C4: for a bracket-balanced source the driver, which optimizes, ends as the
\* run of the unoptimized program ends (when that ends within Fuel steps):
\* the same outcome and the same output.
C4_OptimizationPreserves ==
    (result /= "none" /\ result /= ErrWrite /\ SourceBalanced(source)) =>
        LET ref == Unoptimized(source, input)
        IN  ref.result /= "none" => (result = ref.result /\ output = ref.output)

EngineUntouched ==
    /\ stage /= "run"
    /\ pc = 0 /\ pos = 0 /\ memory = EmptyMemory
    /\ inpos = 0 /\ output = <<>>

\* C7 as stated: a source with more "[" than "]" fails with the
\* unmatched-opening-bracket error and the engine never starts.
C7_MoreOpeningFails ==
    MoreOpening(source) =>
        /\ EngineUntouched
        /\ result \in {"none", ErrMoreOpening}
        /\ stage = "find_loops" => result = ErrMoreOpening

\* C7 amended: a source with more "[" than "]" fails in find_loops and the
\* engine never starts (nothing dispatched, read or written); the error is the
\* unmatched-opening-bracket one unless some "]" has no "[" before it left to
\* close, and then it is the unmatched-closing-bracket one.
C7_UnbalancedFails ==
    MoreOpening(source) =>
        /\ EngineUntouched
        /\ stage /= "find_loops" => result = "none"
        /\ stage = "find_loops" =>
              result = IF SourceStrayClose(source) THEN ErrNoOpening ELSE ErrMoreOpening

C7_Witness ==
    /\ source = << "]", "[", "[" >>
    /\ stage = "find_loops"
    /\ result = ErrNoOpening
    /\ EngineUntouched

\* C8: a GETC executed when the input has no byte left changes nothing but
\* pc, which advances by 1, and the run goes on; when a byte is there the
\* current cell becomes that byte, no other cell changes and the stream
\* advances by one byte.
C8_GetcStep ==
    [][ (stage = "run" /\ result = "none" /\ pc < Len(commands)
            /\ At(commands, pc).op = "GETC")
        => IF inpos >= Len(input)
           THEN /\ memory' = memory /\ pos' = pos /\ inpos' = inpos
                /\ output' = output /\ result' = "none" /\ pc' = pc + 1
           ELSE input[inpos + 1] /= ReadErr =>
                /\ DOMAIN memory' = DOMAIN memory \cup {pos}
                /\ memory'[pos] = input[inpos + 1]
                /\ \A a \in DOMAIN memory \ {pos} : memory'[a] = memory[a]
                /\ inpos' = inpos + 1 /\ pos' = pos
                /\ output' = output /\ result' = "none" /\ pc' = pc + 1
      ]_vars

C8_Witness ==
    /\ stage = "run" /\ result = "none"
    /\ commands = <<INCVAL(1), GETC>>
    /\ input = <<>>
    /\ pc = 2
    /\ MemGet(memory, 0) = 1

-----------------------------------------------------------------------------
(* Properties of test_program_run, checked under SpecTest *)

\* C9: the program ++[>[>],+[<]>-]>[.>] on an input starting b1, b2 (neither
\* 255) halts normally having consumed exactly two bytes and written exactly
\* b1 + 1, b2 + 1.
C9_ReadsTwoWritesTwo ==
    <>[](/\ stage = "run" /\ result = "Ok"
         /\ inpos = 2
         /\ output = << u8_wrapping_add(input[1], 1), u8_wrapping_add(input[2], 1) >>)

C9_Witness ==
    /\ result = "Ok"
    /\ input = <<51, 49, 97, 98, 99>>
    /\ output = <<52, 50>>
    /\ inpos = 2

-----------------------------------------------------------------------------
(* preprocess and tokenize applied to a text, as the tests                  *)
(* test_preprocess, test_tokenize and test_tokenize_panic apply them        *)

InitText ==
    /\ source \in SeqsUpTo(Chars, MaxSrc)
    /\ text = source
    /\ input = <<>>
    /\ commands = <<>>
    /\ stage = "text"
    /\ result = "none"
    /\ inpos = 0 /\ output = <<>>
    /\ pc = 0 /\ pos = 0 /\ memory = EmptyMemory
    /\ prev = <<>> /\ applied = <<>> /\ original = <<>>

TextPreprocess ==
    /\ stage = "text" /\ applied = <<>>
    /\ text' = preprocess(text)
    /\ applied' = Append(applied, "preprocess")
    /\ UNCHANGED <<source, input, inpos, output, commands, stage, result,
                   pc, pos, memory, prev, original>>

TextTokenize ==
    /\ stage = "text" /\ result = "none"
    /\ LET r == tokenize(text)
       IN  /\ commands' = r.commands
           /\ result' = IF r.panic THEN "panic" ELSE "Ok"
    /\ applied' = Append(applied, "tokenize")
    /\ UNCHANGED <<source, text, input, inpos, output, stage,
                   pc, pos, memory, prev, original>>

NextText == TextPreprocess \/ TextTokenize

SpecText == InitText /\ [][NextText]_vars

\* the instruction each of the eight symbols stands for
SymbolTable ==
    { <<">", INCPTR(1)>>, <<"<", DECPTR(1)>>, <<"+", INCVAL(1)>>,
      <<"-", DECVAL(1)>>, <<".", PUTC>>, <<",", GETC>>,
      <<"[", LOOPSTART(0)>>, <<"]", LOOPEND(0)>> }

Symbols == { pr[1] : pr \in SymbolTable }

\* C11: preprocess(T) is the subsequence of the characters of T that are among
\* the eight symbols, in their order; tokenize(preprocess(T)) returns one
\* instruction per retained character, unit amounts and placeholder targets;
\* tokenize panics exactly on a text with a character outside the symbols.
C11_PreprocessTokenize ==
    /\ (applied /= <<>> /\ applied[1] = "preprocess") =>
          /\ IsSubseq(text, source)
          /\ \A k \in 1 .. Len(text) : text[k] \in Symbols
          /\ Len(text) = Cardinality({ k \in 1 .. Len(source) : source[k] \in Symbols })
    /\ applied = <<"preprocess", "tokenize">> => result = "Ok"
    /\ (applied /= <<>> /\ Last(applied) = "tokenize") =>
          /\ result = "panic" <=> \E k \in 1 .. Len(text) : text[k] \notin Symbols
          /\ result = "Ok" =>
                /\ Len(commands) = Len(text)
                /\ \A k \in 1 .. Len(text) : <<text[k], commands[k]>> \in SymbolTable

C11_Witness ==
    /\ applied = <<"preprocess", "tokenize">>
    /\ source = <<",", "x", "]">>
    /\ text = <<",", "]">>
    /\ commands = <<GETC, LOOPEND(0)>>
    /\ result = "Ok"

-----------------------------------------------------------------------------
(* Properties of Program::run *)

\* the engine is about to dispatch the instruction at pc
Dispatching == stage = "run" /\ result = "none" /\ pc < Len(commands)

\* the value a read of the current cell gives: 0 unless the cell was written
CellValue == IF pos \in DOMAIN memory THEN memory[pos] ELSE 0

\* C12: INCVAL{a} / DECVAL{a} at any address take a never-written cell as 0,
\* leave (old + a) mod 256 / (old - a) mod 256 in memory[pos] and do not fail;
\* PUTC writes, and LOOPSTART tests, 0 for a never-written cell.
C12_CellArithmetic ==
    [][Dispatching =>
         LET c == At(commands, pc)
         IN  /\ c.op = "INCVAL" =>
                   /\ result' = "none"
                   /\ pos \in DOMAIN memory'
                   /\ memory'[pos] = (CellValue + c.arg) % 256
             /\ c.op = "DECVAL" =>
                   /\ result' = "none"
                   /\ pos \in DOMAIN memory'
                   /\ memory'[pos] = (CellValue - c.arg) % 256
             /\ (c.op = "PUTC" /\ result' = "none") =>
                   output' = Append(output, CellValue)
             /\ c.op = "LOOPSTART" =>
                   pc' = IF CellValue = 0 THEN c.arg + 1 ELSE pc + 1
      ]_vars

\* "<-" was run: the never-written cell -1 holds 0 - 1 mod 256
C12_Witness ==
    /\ stage = "run"
    /\ commands = <<DECPTR(1), DECVAL(1)>>
    /\ pos = -1
    /\ memory = [a \in {-1} |-> 255]
    /\ pc = 2
    /\ result = "none"

-----------------------------------------------------------------------------
(* The order of the stages of the driver *)

\* the stage entered by a step consumed what the stage before it left
ConsumesPrior ==
    /\ stage' = "preprocess" => text' = SelectSeq(source, LAMBDA c : c \in Symbols)
    /\ (stage' = "tokenize" /\ result' = "none") =>
          /\ Len(commands') = Len(text)
          /\ \A k \in 1 .. Len(text) : <<text[k], commands'[k]>> \in SymbolTable
    /\ (stage' = "optimize" /\ result' = "none") => commands' = optimize(commands).program
    /\ (stage' = "find_loops" /\ result' = "none") => commands' = find_loops(commands).commands
    /\ stage' = "run" => (commands' = commands /\ pc' = 0)

\* C13 as the specification states it: preprocess, tokenize, the loop resolver,
\* the optimizer, execution, each stage entered from the one before it.
C13_ResolverThenOptimizer ==
    [][stage' /= stage =>
         /\ <<stage, stage'>> \in { <<"read_program", "preprocess">>,
                                    <<"preprocess", "tokenize">>,
                                    <<"tokenize", "find_loops">>,
                                    <<"find_loops", "optimize">>,
                                    <<"optimize", "run">> }
         /\ ConsumesPrior
      ]_vars

\* C13: the driver applies preprocess, tokenize, the optimizer, the loop
\* resolver, execution, in this order, each stage entered from the one before
\* it and consuming what that one left.
C13_OptimizerThenResolver ==
    [][stage' /= stage =>
         /\ <<stage, stage'>> \in { <<"read_program", "preprocess">>,
                                    <<"preprocess", "tokenize">>,
                                    <<"tokenize", "optimize">>,
                                    <<"optimize", "find_loops">>,
                                    <<"find_loops", "run">> }
         /\ ConsumesPrior
      ]_vars

\* "++." has been tokenized, optimized and then resolved
C13_Witness ==
    /\ stage = "find_loops"
    /\ source = <<"+", "+", ".">>
    /\ text = source
    /\ commands = <<INCVAL(2), PUTC>>
    /\ result = "none"

-----------------------------------------------------------------------------
(* The driver run() on program files of loops and moves, stdin at its end   *)

LoopChars == { "+", "[", "]", ">", "<" }

InitLoops ==
    /\ source \in SeqsUpTo(LoopChars, MaxLoopSrc)
    /\ input = <<>>
    /\ text = <<>>
    /\ commands = <<>>
    /\ stage = "read_program"
    /\ result = "none"
    /\ inpos = 0 /\ output = <<>>
    /\ pc = 0 /\ pos = 0 /\ memory = EmptyMemory
    /\ prev = <<>> /\ applied = <<>> /\ original = <<>>

SpecLoops == InitLoops /\ [][Next]_vars

-----------------------------------------------------------------------------
(* Properties of the driver on loop programs, checked under SpecLoops *)

\* C14: in the vector the driver hands to Program::run, every LOOPSTART at
\* index i has end = j, the index in this vector of its matching LOOPEND, and
\* that LOOPEND has start = i; every LOOPEND is the matching close of the
\* LOOPSTART its start names.
C14_TargetsValid ==
    stage = "run" =>
        /\ SourceBalanced(source)
        /\ Balanced(commands)
        /\ \A i \in 1 .. Len(commands) :
              /\ commands[i].op = "LOOPSTART" =>
                    LET j == MatchingClose(commands, i)
                    IN  /\ commands[i].arg = j - 1
                        /\ commands[j] = LOOPEND(i - 1)
              /\ commands[i].op = "LOOPEND" =>
                    LET o == commands[i].arg + 1
                    IN  /\ o \in 1 .. i - 1
                        /\ commands[o] = LOOPSTART(i - 1)
                        /\ MatchingClose(commands, o) = i

\* "++[>]": the loop is at 1 .. 3 of the optimized vector, at 2 .. 4 of the text
C14_Witness ==
    /\ stage = "run"
    /\ source = <<"+", "+", "[", ">", "]">>
    /\ commands = <<INCVAL(2), LOOPSTART(3), INCPTR(1), LOOPEND(1)>>

\* a step of the engine that dispatches an instruction and goes on
Dispatched == Dispatching /\ result' = "none"

OpAt(i) == IF i \in 0 .. Len(commands) - 1 THEN At(commands, i).op ELSE "none"

CellValueNext == IF pos' \in DOMAIN memory' THEN memory'[pos'] ELSE 0

\* LOOPEND sets pc to its LOOPSTART and does not go on to the next instruction
LoopendJumpsBack ==
    OpAt(pc) = "LOOPEND" =>
        /\ pc' = At(commands, pc).arg
        /\ pc' /= pc + 1
        /\ OpAt(pc') = "LOOPSTART"

\* the instruction after a LOOPEND is reached only from the matching LOOPSTART
\* finding 0 in the current cell, which is 0 still when the loop has been left
LoopLeftOnZero ==
    OpAt(pc' - 1) = "LOOPEND" =>
        /\ OpAt(pc) = "LOOPSTART"
        /\ At(commands, pc).arg = pc' - 1
        /\ CellValue = 0
        /\ CellValueNext = 0

\* C15 as the specification states it: LOOPEND never falls through, the
\* instruction after a LOOPEND is reached only from the matching LOOPSTART with
\* memory[pos] = 0, and the first instruction of a loop body is reached only
\* with memory[pos] /= 0.
C15_BodyOnlyNonZero ==
    [][Dispatched =>
         /\ LoopendJumpsBack
         /\ LoopLeftOnZero
         /\ OpAt(pc' - 1) = "LOOPSTART" => CellValueNext /= 0
      ]_vars

\* C15: LOOPEND never falls through, the instruction after a LOOPEND is
\* reached only from the matching LOOPSTART with memory[pos] = 0 (so the cell
\* is 0 when a loop has been left), and the first instruction of a loop body
\* is reached either from its LOOPSTART, with memory[pos] /= 0, or, being the
\* LOOPSTART of a nested loop, by the jump back from that loop's LOOPEND.
C15_LoopSemantics ==
    [][Dispatched =>
         /\ LoopendJumpsBack
         /\ LoopLeftOnZero
         /\ OpAt(pc' - 1) = "LOOPSTART" =>
               \/ /\ pc = pc' - 1
                  /\ CellValue /= 0
                  /\ CellValueNext /= 0
               \/ /\ OpAt(pc) = "LOOPEND"
                  /\ OpAt(pc') = "LOOPSTART"
                  /\ At(commands, pc').arg = pc
      ]_vars

\* "+[[>]]": the inner LOOPEND has jumped back to the first instruction of the
\* body of the outer loop, the current cell being 0
C15_Witness ==
    /\ stage = "run" /\ result = "none"
    /\ commands = <<INCVAL(1), LOOPSTART(5), LOOPSTART(4), INCPTR(1), LOOPEND(2), LOOPEND(1)>>
    /\ pc = 2
    /\ pos = 1
    /\ CellValue = 0

\* C16: while Program::run runs a program resolved by find_loops, pc is in
\* 0 .. commands.len(), an instruction is dispatched only at pc < commands.len(),
\* the run returns Ok exactly at pc = commands.len(), and "PC overflow" is
\* never the result.
C16_PcInBounds ==
    /\ [](stage = "run" =>
            /\ pc \in 0 .. Len(commands)
            /\ result /= ErrPc
            /\ result = "Ok" => pc = Len(commands))
    /\ [][(stage = "run" /\ result = "none") =>
            /\ pc' \in 0 .. Len(commands)
            /\ result' = "Ok" <=> pc = Len(commands)
            /\ result' = "Ok" => pc' = pc
         ]_vars

\* "+[>]" has left its loop at the end of the vector and returned Ok
C16_Witness ==
    /\ stage = "run"
    /\ commands = <<INCVAL(1), LOOPSTART(3), INCPTR(1), LOOPEND(1)>>
    /\ pc = 4
    /\ pos = 1
    /\ result = "Ok"

-----------------------------------------------------------------------------
(* Frame conditions of the dispatch, checked under Spec *)

\* no key other than pos is added, removed or given another value
OtherCellsKept ==
    \A a \in (DOMAIN memory \cup DOMAIN memory') \ { pos } :
        /\ a \in DOMAIN memory
        /\ a \in DOMAIN memory'
        /\ memory'[a] = memory[a]

\* C17: INCPTR/DECPTR change only pos and pc; INCVAL/DECVAL and GETC change
\* only the cell at pos and pc (GETC also takes its byte from the input);
\* PUTC appends the value of the current cell to the output and changes
\* neither pos nor a cell; LOOPSTART/LOOPEND change only pc; no step of a run
\* changes the instruction vector.
C17_Frames ==
    [][stage = "run" =>
         /\ commands' = commands
         /\ Dispatched =>
              LET op == At(commands, pc).op
              IN  /\ op \in { "INCPTR", "DECPTR" } =>
                        /\ memory' = memory
                        /\ output' = output /\ inpos' = inpos
                  /\ op \in { "INCVAL", "DECVAL" } =>
                        /\ pos' = pos /\ OtherCellsKept
                        /\ output' = output /\ inpos' = inpos
                  /\ op = "GETC" =>
                        /\ pos' = pos /\ OtherCellsKept
                        /\ output' = output
                        /\ inpos' \in { inpos, inpos + 1 }
                  /\ op = "PUTC" =>
                        /\ output' = Append(output, CellValue)
                        /\ pos' = pos /\ memory' = memory
                        /\ inpos' = inpos
                  /\ op \in { "LOOPSTART", "LOOPEND" } =>
                        /\ pos' = pos /\ memory' = memory
                        /\ output' = output /\ inpos' = inpos
      ]_vars

\* "+>," has stored the byte 65 in cell 1 and left cell 0 as it was
C17_Witness ==
    /\ stage = "run"
    /\ commands = <<INCVAL(1), INCPTR(1), GETC>>
    /\ pc = 3
    /\ pos = 1
    /\ memory = [a \in {0, 1} |-> IF a = 0 THEN 1 ELSE 65]
    /\ inpos = 1
    /\ output = <<>>

-----------------------------------------------------------------------------
(* The bounds of the pointer, checked under SpecLoops *)

\* C18: INCPTR{a} ends the run with "Pointer overflow" exactly when pos + a is
\* above the largest isize, DECPTR{a} with "Pointer underflow" exactly when
\* pos - a is below the smallest; pos is then left as it was and nothing is
\* dispatched after it; otherwise pos becomes pos + a / pos - a.
C18_PointerBounds ==
    [][/\ Dispatching =>
            LET c == At(commands, pc)
            IN  /\ c.op = "INCPTR" =>
                      IF pos + c.arg > ISIZE_MAX
                      THEN result' = ErrPtrOverflow /\ pos' = pos /\ pc' = pc
                      ELSE result' = "none" /\ pos' = pos + c.arg
                /\ c.op = "DECPTR" =>
                      IF pos - c.arg < ISIZE_MIN
                      THEN result' = ErrPtrUnderflow /\ pos' = pos /\ pc' = pc
                      ELSE result' = "none" /\ pos' = pos - c.arg
                /\ result' = ErrPtrOverflow => (c.op = "INCPTR" /\ pos + c.arg > ISIZE_MAX)
                /\ result' = ErrPtrUnderflow => (c.op = "DECPTR" /\ pos - c.arg < ISIZE_MIN)
       /\ result \in { ErrPtrOverflow, ErrPtrUnderflow } => UNCHANGED vars
      ]_vars

\* "+[>+]" has walked to the largest address and failed on the next move
C18_Witness ==
    /\ stage = "run"
    /\ source = <<"+", "[", ">", "+", "]">>
    /\ result = ErrPtrOverflow
    /\ pos = ISIZE_MAX
    /\ pc = 2

-----------------------------------------------------------------------------
(* The order of the two passes of optimize, checked under SpecTransforms *)

\* C19: optimize(p) is optimize_sequences applied to what
\* optimize_cancelling_pairs(p) leaves (it panics when that pass panics), and
\* it makes INCVAL{3} of the vector of test_optimize.
C19_OptimizeOrder ==
    /\ (applied = <<"optimize_cancelling_pairs", "optimize_sequences">> /\ result = "Ok") =>
          /\ ~optimize(original).panic
          /\ commands = optimize(original).program
    /\ (applied = <<"optimize_cancelling_pairs">> /\ result = "panic") =>
          optimize(original).panic
    /\ (applied = <<"optimize">> /\ original = TestOptimizeCommands) =>
          /\ result = "Ok"
          /\ commands = <<INCVAL(3)>>

\* the vector of test_optimize, coalesced first and cancelled second, is not
\* what optimize makes of it
C19_Witness ==
    /\ applied = <<"optimize_sequences", "optimize_cancelling_pairs">>
    /\ result = "Ok"
    /\ original = TestOptimizeCommands
    /\ commands = <<INCVAL(1), INCVAL(2)>>
    /\ optimize(original).program = <<INCVAL(3)>>

====
